---- MODULE Spec2Model ----
(***************************************************************************)
(* A model of iot-health-check.py: one run of the script, from the first   *)
(* source fetch to the report file and the mail.  The responses of the     *)
(* five HTTP requests, the configuration and the clock are the inputs of a *)
(* run; every function of the script is an operator computed as the code   *)
(* computes it, and every statement of the main sequence is an action.     *)
(***************************************************************************)
EXTENDS Integers, Sequences, FiniteSets, TLC

VARIABLES
    config,                          \* configuration.ini, as read at start-up
    domoticz_devices_ignored,        \* DOMOTICZ.DEVICES_IGNORED (JSON list)
    domoticz_devices_timeout_period, \* DOMOTICZ.DEVICES_TIMEOUT_PERIOD (JSON object)
    domoticz_devices_low_battery,    \* DOMOTICZ.DEVICES_LOW_BATTERY (JSON list)
    now,                             \* what datetime.now() reads
    responses,                       \* what each requests.get of the run obtains
    pc,                              \* position in the main sequence
    failedAt,                        \* the statement whose exception ended the run
    fetched,                         \* the sources whose fetch has returned
    monit_services,
    health_checks,
    domoticz_devices,
    devices_inactive,
    devices_low_battery,
    devices_no_roomplan,
    log_errors,
    zway_devices,
    zway_devices_failed,
    zway_devices_low_battery,
    context,
    report,
    file,                            \* the content of rendered.html
    mail                             \* "none", "sent" or "failed"

vars == <<config, domoticz_devices_ignored, domoticz_devices_timeout_period,
          domoticz_devices_low_battery, now, responses, pc, failedAt, fetched,
          monit_services, health_checks, domoticz_devices, devices_inactive,
          devices_low_battery, devices_no_roomplan, log_errors, zway_devices,
          zway_devices_failed, zway_devices_low_battery, context, report,
          file, mail>>

-----------------------------------------------------------------------------
(* Bounds of the model.                                                    *)

MaxDevices == 2

MaxLogItems == 3

MaxZwayDevices == 2

-----------------------------------------------------------------------------
(* Values.  A string that the code slices, searches or orders is a         *)
(* sequence of one-character strings; a string it only compares for        *)
(* equality is a TLA+ string.                                              *)

None == [none |-> TRUE]

Return(v) == [raised |-> FALSE, value |-> v]

Raise(e) == [raised |-> TRUE, error |-> e]

CharCode == ("." :> 46 @@ "0" :> 48 @@ "1" :> 49 @@ "2" :> 50 @@ "|" :> 124
             @@ "a" :> 97 @@ "b" :> 98 @@ "c" :> 99)

\* str < str of Python: by code point, a proper prefix first.
RECURSIVE StrLess(_, _)
StrLess(s, t) ==
    IF t = <<>> THEN FALSE
    ELSE IF s = <<>> THEN TRUE
    ELSE IF CharCode[Head(s)] # CharCode[Head(t)]
         THEN CharCode[Head(s)] < CharCode[Head(t)]
    ELSE StrLess(Tail(s), Tail(t))

\* A LastUpdate string 'YYYY-mm-dd HH:MM:SS' is <<day number, second of the
\* day>>; strings of this one format order as their fields do.
StampLess(s, t) == s[1] < t[1] \/ (s[1] = t[1] /\ s[2] < t[2])

SecondsPerDay == 86400

\* datetime.strptime(s, '%Y-%m-%d %H:%M:%S'): the instant, in seconds.
strptime(s) == s[1] * SecondsPerDay + s[2]

\* timedelta.days of (a - b): the floor of the elapsed seconds in days.
timedelta_days(a, b) == (a - b) \div SecondsPerDay

\* line 191: key=lambda d: d['LastUpdate']
ByLastUpdate(d, e) == StampLess(d.LastUpdate, e.LastUpdate)

\* The number a string of digits writes.
RECURSIVE StrToInt(_)
StrToInt(s) ==
    IF s = <<>> THEN 0
    ELSE 10 * StrToInt(SubSeq(s, 1, Len(s) - 1)) + (CharCode[s[Len(s)]] - 48)

\* A faulty key of line 195: the idx compared as a number.
ByIdxAsNumber(d, e) == StrToInt(d.idx) < StrToInt(e.idx)

\* line 195: key=lambda d: d['idx']
ByIdx(d, e) == StrLess(d.idx, e.idx)

\* line 197: key=lambda e: e['count'], reverse=True
ByCountReverse(d, e) == d.count > e.count

\* The three orders in which the context sorts (lines 191, 195 and 197).
Before(key, x, y) ==
    CASE key = "LastUpdate" -> ByLastUpdate(x, y)
      [] key = "idx" -> ByIdx(x, y)
      [] key = "count, reverse" -> ByCountReverse(x, y)

\* sorted(seq, key=...): the stable sort of Python.  The element at index i
\* comes after the elements that precede it by the key and after the earlier
\* elements of equal key.
SortRank(s, i, key) ==
    1 + Cardinality({j \in 1..Len(s) :
                        \/ Before(key, s[j], s[i])
                        \/ (j < i /\ ~Before(key, s[i], s[j]))})

sorted(s, key) ==
    [k \in 1..Len(s) |-> s[CHOOSE i \in 1..Len(s) : SortRank(s, i, key) = k]]

-----------------------------------------------------------------------------
(* The HTTP layer.  A response is what requests.get obtains: no response   *)
(* at all (net = "fail": requests.get raises), or a status code and a      *)
(* body.  A body is [kind |-> "json", value |-> a dict], [kind |-> "xml",  *)
(* services |-> the service elements] or [kind |-> "malformed"].           *)

Sources == {"monit", "health", "domoticz", "log", "zway"}

\* requests.get(...).json()[key]: the code never looks at response.status.
json_key(response, key) ==
    IF response.net # "ok" THEN Raise("ConnectionError")
    ELSE IF response.body.kind # "json" THEN Raise("JSONDecodeError")
    ELSE IF key \notin DOMAIN response.body.value THEN Raise("KeyError")
    ELSE Return(response.body.value[key])

\* A faulty get_domoticz_devices: a failed fetch taken as an empty list.
get_domoticz_devices_lenient(response) ==
    IF json_key(response, "result").raised THEN Return(<<>>)
    ELSE json_key(response, "result")

get_domoticz_devices(response) == json_key(response, "result")

get_health_checks(response) ==
    LET checks == json_key(response, "checks")
    IN  IF checks.raised THEN checks
        ELSE Return(SelectSeq(checks.value, LAMBDA check : check.status # "up"))

get_monit_services(response) ==
    IF response.net # "ok" THEN Raise("ConnectionError")
    ELSE IF response.body.kind # "xml" THEN Raise("XMLSyntaxError")
    ELSE LET Failed(service) == /\ service.type = "3"
                                /\ service.monitor = "1"
                                /\ service.status # "0"
             picked == SelectSeq(response.body.services, Failed)
         IN  Return([i \in 1..Len(picked) |->
                        [status |-> "??", name |-> picked[i].name]])

\* A faulty get_zway_devices: the technology test of line 135 left out.
get_zway_devices_unfiltered(response) ==
    LET data == json_key(response, "data")
    IN  IF data.raised THEN data
        ELSE IF "devices" \notin DOMAIN data.value THEN Raise("KeyError")
        ELSE Return(data.value.devices)

get_zway_devices(response) ==
    LET data == json_key(response, "data")
    IN  IF data.raised THEN data
        ELSE IF "devices" \notin DOMAIN data.value THEN Raise("KeyError")
        ELSE Return(SelectSeq(data.value.devices,
                              LAMBDA d : d.technology = "Z-Wave"))

-----------------------------------------------------------------------------
(* The log errors.                                                         *)

PrefixLen == 32

\* message[32:]
log_key(message) == SubSeq(message, PrefixLen + 1, Len(message))

\* A faulty re_search: re.match, which matches at the start of the key only.
re_match(pattern, key) ==
    /\ Len(pattern) <= Len(key)
    /\ \A j \in 1..Len(pattern) : pattern[j] = "." \/ pattern[j] = key[j]

\* re.search(pattern, key), for the patterns made of literal characters and
\* of ".", which stands for any one character: a match at some offset.
re_search(pattern, key) ==
    \E off \in 0..(Len(key) - Len(pattern)) :
        \A j \in 1..Len(pattern) :
            pattern[j] = "." \/ pattern[j] = key[off + j]

\* lines 71-76: the loop over the ignored patterns.
ignore_log_message(key, log_messages_ignored) ==
    \E m \in 1..Len(log_messages_ignored) :
        re_search(log_messages_ignored[m], key)

\* errors[key] += 1 on a defaultdict(int), which keeps its keys in the order
\* of their first insertion: the dict is the sequence of its items.
dict_increment(errors, key) ==
    IF \E i \in 1..Len(errors) : errors[i].text = key
    THEN [i \in 1..Len(errors) |->
            IF errors[i].text = key
            THEN [text |-> key, count |-> errors[i].count + 1]
            ELSE errors[i]]
    ELSE Append(errors, [text |-> key, count |-> 1])

\* lines 69-81: the loop over the items and the list that is returned.
RECURSIVE count_log_errors(_, _, _)
count_log_errors(items, log_messages_ignored, errors) ==
    IF items = <<>> THEN errors
    ELSE LET key == log_key(Head(items).message)
         IN  count_log_errors(
                Tail(items), log_messages_ignored,
                IF ignore_log_message(key, log_messages_ignored)
                THEN errors
                ELSE dict_increment(errors, key))

\* A faulty get_log_errors: the test of lines 64-65 left out.
get_log_errors_unguarded(response) ==
    IF response.net # "ok" THEN Raise("ConnectionError")
    ELSE IF response.body.kind # "json" THEN Raise("JSONDecodeError")
    ELSE IF "result" \notin DOMAIN response.body.value THEN Raise("KeyError")
    ELSE Return(count_log_errors(response.body.value.result,
                                 config.LOG_MESSAGES_IGNORED, <<>>))

get_log_errors(response) ==
    IF response.net # "ok" THEN Raise("ConnectionError")
    ELSE IF response.body.kind # "json" THEN Raise("JSONDecodeError")
    ELSE IF "result" \notin DOMAIN response.body.value THEN Return(<<>>)
    ELSE Return(count_log_errors(response.body.value.result,
                                 config.LOG_MESSAGES_IGNORED, <<>>))

-----------------------------------------------------------------------------
(* The device filters.                                                     *)

\* lines 99-102
timeout_period_of(device_idx) ==
    IF device_idx \in DOMAIN domoticz_devices_timeout_period
    THEN domoticz_devices_timeout_period[device_idx]
    ELSE config.TIMEOUT_PERIOD

\* A faulty is_inactive: the comparison of line 104 made strict.
is_inactive_strict(device) ==
    /\ device.idx \notin domoticz_devices_ignored
    /\ timedelta_days(strptime(now), strptime(device.LastUpdate))
          > timeout_period_of(device.idx)

\* lines 93-105: whether the loop body appends the device.
is_inactive(device) ==
    /\ device.idx \notin domoticz_devices_ignored
    /\ timedelta_days(strptime(now), strptime(device.LastUpdate))
          >= timeout_period_of(device.idx)

get_devices_inactive(devices) == Return(SelectSeq(devices, is_inactive))

\* lines 117-123: what the loop body does with one device.
low_battery_step(device) ==
    IF device.idx \notin domoticz_devices_low_battery THEN "skip"
    ELSE IF "BatteryLevel" \notin DOMAIN device THEN "KeyError"
    ELSE IF device.BatteryLevel < config.LOW_BATTERY_LEVEL THEN "append"
    ELSE "skip"

get_devices_low_battery(devices) ==
    IF \E i \in 1..Len(devices) : low_battery_step(devices[i]) = "KeyError"
    THEN Raise("KeyError")
    ELSE Return(SelectSeq(devices, LAMBDA d : low_battery_step(d) = "append"))

get_zway_devices_failed(devices) ==
    Return(SelectSeq(devices, LAMBDA d : d.metrics.isFailed))

\* line 148: the test of the comprehension on one device.
zway_low_battery_step(d) ==
    IF d.deviceType # "battery" THEN "skip"
    ELSE IF "level" \notin DOMAIN d.metrics THEN "KeyError"
    ELSE IF d.metrics.level < config.LOW_BATTERY_LEVEL THEN "append"
    ELSE "skip"

get_zway_devices_low_battery(devices) ==
    IF \E i \in 1..Len(devices) : zway_low_battery_step(devices[i]) = "KeyError"
    THEN Raise("KeyError")
    ELSE Return(SelectSeq(devices, LAMBDA d : zway_low_battery_step(d) = "append"))

get_devices_no_roomplan(devices) ==
    Return(SelectSeq(devices, LAMBDA d : d.PlanID = "0"))

\* lines 189-206
build_context ==
    [devices_inactive         |-> sorted(devices_inactive, "LastUpdate"),
     devices_low_battery      |-> devices_low_battery,
     devices_no_roomplan      |-> sorted(devices_no_roomplan, "idx"),
     log_errors               |-> sorted(log_errors, "count, reverse"),
     health_checks            |-> health_checks,
     monit_services           |-> monit_services,
     zway_devices_failed      |-> zway_devices_failed,
     zway_devices_low_battery |-> zway_devices_low_battery]

\* template.render(context): the document that shows the eight lists.
render(ctx) == [html |-> ctx]

\* A faulty test of line 217: the mail sent whatever SEND_MAIL says.
send_mail_always == TRUE

\* line 217
send_mail_enabled == config.SEND_MAIL = TRUE

-----------------------------------------------------------------------------
(* The main sequence, lines 174-218.  An exception that a statement raises *)
(* is not caught anywhere: it ends the run (pc = "failed").                *)

inputs == <<config, domoticz_devices_ignored,
            domoticz_devices_timeout_period, domoticz_devices_low_battery,
            now, responses>>

\* line 174
GetMonitServices ==
    /\ pc = "monit"
    /\ LET r == get_monit_services(responses["monit"])
       IN  IF r.raised
           THEN /\ pc' = "failed"
                /\ failedAt' = "monit"
                /\ UNCHANGED <<monit_services, fetched>>
           ELSE /\ pc' = "health"
                /\ monit_services' = r.value
                /\ fetched' = fetched \cup {"monit"}
                /\ UNCHANGED failedAt
    /\ UNCHANGED inputs
    /\ UNCHANGED <<health_checks, domoticz_devices, devices_inactive,
                   devices_low_battery, devices_no_roomplan, log_errors,
                   zway_devices, zway_devices_failed,
                   zway_devices_low_battery, context, report, file, mail>>

\* line 176
GetHealthChecks ==
    /\ pc = "health"
    /\ LET r == get_health_checks(responses["health"])
       IN  IF r.raised
           THEN /\ pc' = "failed"
                /\ failedAt' = "health"
                /\ UNCHANGED <<health_checks, fetched>>
           ELSE /\ pc' = "domoticz"
                /\ health_checks' = r.value
                /\ fetched' = fetched \cup {"health"}
                /\ UNCHANGED failedAt
    /\ UNCHANGED inputs
    /\ UNCHANGED <<monit_services, domoticz_devices, devices_inactive,
                   devices_low_battery, devices_no_roomplan, log_errors,
                   zway_devices, zway_devices_failed,
                   zway_devices_low_battery, context, report, file, mail>>

\* line 178
GetDomoticzDevices ==
    /\ pc = "domoticz"
    /\ LET r == get_domoticz_devices(responses["domoticz"])
       IN  IF r.raised
           THEN /\ pc' = "failed"
                /\ failedAt' = "domoticz"
                /\ UNCHANGED <<domoticz_devices, fetched>>
           ELSE /\ pc' = "inactive"
                /\ domoticz_devices' = r.value
                /\ fetched' = fetched \cup {"domoticz"}
                /\ UNCHANGED failedAt
    /\ UNCHANGED inputs
    /\ UNCHANGED <<monit_services, health_checks, devices_inactive,
                   devices_low_battery, devices_no_roomplan, log_errors,
                   zway_devices, zway_devices_failed,
                   zway_devices_low_battery, context, report, file, mail>>

\* line 180
GetDevicesInactive ==
    /\ pc = "inactive"
    /\ LET r == get_devices_inactive(domoticz_devices)
       IN  IF r.raised
           THEN /\ pc' = "failed"
                /\ failedAt' = "inactive"
                /\ UNCHANGED <<devices_inactive, fetched>>
           ELSE /\ pc' = "low_battery"
                /\ devices_inactive' = r.value
                /\ fetched' = fetched
                /\ UNCHANGED failedAt
    /\ UNCHANGED inputs
    /\ UNCHANGED <<monit_services, health_checks, domoticz_devices,
                   devices_low_battery, devices_no_roomplan, log_errors,
                   zway_devices, zway_devices_failed,
                   zway_devices_low_battery, context, report, file, mail>>

\* line 181
GetDevicesLowBattery ==
    /\ pc = "low_battery"
    /\ LET r == get_devices_low_battery(domoticz_devices)
       IN  IF r.raised
           THEN /\ pc' = "failed"
                /\ failedAt' = "low_battery"
                /\ UNCHANGED <<devices_low_battery, fetched>>
           ELSE /\ pc' = "no_roomplan"
                /\ devices_low_battery' = r.value
                /\ fetched' = fetched
                /\ UNCHANGED failedAt
    /\ UNCHANGED inputs
    /\ UNCHANGED <<monit_services, health_checks, domoticz_devices,
                   devices_inactive, devices_no_roomplan, log_errors,
                   zway_devices, zway_devices_failed,
                   zway_devices_low_battery, context, report, file, mail>>

\* line 182
GetDevicesNoRoomplan ==
    /\ pc = "no_roomplan"
    /\ LET r == get_devices_no_roomplan(domoticz_devices)
       IN  IF r.raised
           THEN /\ pc' = "failed"
                /\ failedAt' = "no_roomplan"
                /\ UNCHANGED <<devices_no_roomplan, fetched>>
           ELSE /\ pc' = "log"
                /\ devices_no_roomplan' = r.value
                /\ fetched' = fetched
                /\ UNCHANGED failedAt
    /\ UNCHANGED inputs
    /\ UNCHANGED <<monit_services, health_checks, domoticz_devices,
                   devices_inactive, devices_low_battery, log_errors,
                   zway_devices, zway_devices_failed,
                   zway_devices_low_battery, context, report, file, mail>>

\* line 183
GetLogErrors ==
    /\ pc = "log"
    /\ LET r == get_log_errors(responses["log"])
       IN  IF r.raised
           THEN /\ pc' = "failed"
                /\ failedAt' = "log"
                /\ UNCHANGED <<log_errors, fetched>>
           ELSE /\ pc' = "zway"
                /\ log_errors' = r.value
                /\ fetched' = fetched \cup {"log"}
                /\ UNCHANGED failedAt
    /\ UNCHANGED inputs
    /\ UNCHANGED <<monit_services, health_checks, domoticz_devices,
                   devices_inactive, devices_low_battery,
                   devices_no_roomplan, zway_devices, zway_devices_failed,
                   zway_devices_low_battery, context, report, file, mail>>

\* line 185
GetZwayDevices ==
    /\ pc = "zway"
    /\ LET r == get_zway_devices(responses["zway"])
       IN  IF r.raised
           THEN /\ pc' = "failed"
                /\ failedAt' = "zway"
                /\ UNCHANGED <<zway_devices, fetched>>
           ELSE /\ pc' = "zway_failed"
                /\ zway_devices' = r.value
                /\ fetched' = fetched \cup {"zway"}
                /\ UNCHANGED failedAt
    /\ UNCHANGED inputs
    /\ UNCHANGED <<monit_services, health_checks, domoticz_devices,
                   devices_inactive, devices_low_battery,
                   devices_no_roomplan, log_errors, zway_devices_failed,
                   zway_devices_low_battery, context, report, file, mail>>

\* line 186
GetZwayDevicesFailed ==
    /\ pc = "zway_failed"
    /\ LET r == get_zway_devices_failed(zway_devices)
       IN  IF r.raised
           THEN /\ pc' = "failed"
                /\ failedAt' = "zway_failed"
                /\ UNCHANGED <<zway_devices_failed, fetched>>
           ELSE /\ pc' = "zway_low_battery"
                /\ zway_devices_failed' = r.value
                /\ fetched' = fetched
                /\ UNCHANGED failedAt
    /\ UNCHANGED inputs
    /\ UNCHANGED <<monit_services, health_checks, domoticz_devices,
                   devices_inactive, devices_low_battery,
                   devices_no_roomplan, log_errors, zway_devices,
                   zway_devices_low_battery, context, report, file, mail>>

\* line 187
GetZwayDevicesLowBattery ==
    /\ pc = "zway_low_battery"
    /\ LET r == get_zway_devices_low_battery(zway_devices)
       IN  IF r.raised
           THEN /\ pc' = "failed"
                /\ failedAt' = "zway_low_battery"
                /\ UNCHANGED <<zway_devices_low_battery, fetched>>
           ELSE /\ pc' = "context"
                /\ zway_devices_low_battery' = r.value
                /\ fetched' = fetched
                /\ UNCHANGED failedAt
    /\ UNCHANGED inputs
    /\ UNCHANGED <<monit_services, health_checks, domoticz_devices,
                   devices_inactive, devices_low_battery,
                   devices_no_roomplan, log_errors, zway_devices,
                   zway_devices_failed, context, report, file, mail>>

\* lines 189-206
BuildContext ==
    /\ pc = "context"
    /\ context' = build_context
    /\ pc' = "render"
    /\ UNCHANGED <<inputs, failedAt, fetched>>
    /\ UNCHANGED <<monit_services, health_checks, domoticz_devices,
                   devices_inactive, devices_low_battery,
                   devices_no_roomplan, log_errors, zway_devices,
                   zway_devices_failed, zway_devices_low_battery, report,
                   file, mail>>

\* lines 208-212
RenderReport ==
    /\ pc = "render"
    /\ report' = render(context)
    /\ pc' = "write"
    /\ UNCHANGED <<inputs, failedAt, fetched>>
    /\ UNCHANGED <<monit_services, health_checks, domoticz_devices,
                   devices_inactive, devices_low_battery,
                   devices_no_roomplan, log_errors, zway_devices,
                   zway_devices_failed, zway_devices_low_battery, context,
                   file, mail>>

\* lines 214-215
WriteFile ==
    /\ pc = "write"
    /\ file' = report
    /\ pc' = "mail"
    /\ UNCHANGED <<inputs, failedAt, fetched>>
    /\ UNCHANGED <<monit_services, health_checks, domoticz_devices,
                   devices_inactive, devices_low_battery,
                   devices_no_roomplan, log_errors, zway_devices,
                   zway_devices_failed, zway_devices_low_battery, context,
                   report, mail>>

\* lines 217-218; send_mail (lines 155-172) talks to the SMTP server, and any
\* of its calls may raise.
SendMail ==
    /\ pc = "mail"
    /\ IF send_mail_enabled
       THEN \E delivered \in BOOLEAN :
               IF delivered
               THEN /\ mail' = "sent"
                    /\ pc' = "done"
                    /\ UNCHANGED failedAt
               ELSE /\ mail' = "failed"
                    /\ pc' = "failed"
                    /\ failedAt' = "mail"
       ELSE /\ pc' = "done"
            /\ UNCHANGED <<mail, failedAt>>
    /\ UNCHANGED <<inputs, fetched>>
    /\ UNCHANGED <<monit_services, health_checks, domoticz_devices,
                   devices_inactive, devices_low_battery,
                   devices_no_roomplan, log_errors, zway_devices,
                   zway_devices_failed, zway_devices_low_battery, context,
                   report, file>>

Next ==
    \/ GetMonitServices
    \/ GetHealthChecks
    \/ GetDomoticzDevices
    \/ GetDevicesInactive
    \/ GetDevicesLowBattery
    \/ GetDevicesNoRoomplan
    \/ GetLogErrors
    \/ GetZwayDevices
    \/ GetZwayDevicesFailed
    \/ GetZwayDevicesLowBattery
    \/ BuildContext
    \/ RenderReport
    \/ WriteFile
    \/ SendMail

-----------------------------------------------------------------------------
(* The inputs of a run.                                                    *)

SeqsUpTo(S, n) == UNION {[1..k -> S] : k \in 0..n}

\* Device identities are unique within one poll.
DistinctIdx(s) == \A i, j \in 1..Len(s) : i # j => s[i].idx # s[j].idx

DistinctNodeId(s) == \A i, j \in 1..Len(s) : i # j => s[i].nodeId # s[j].nodeId

Idx == {<<"1">>, <<"2">>, <<"1", "0">>}

\* now is noon of day 10; the LastUpdate values are 0 s, 1 day less 1 s,
\* 1 day, 3 days less 1 s and 3 days before it, and 1 s after it.
NowStamp == <<10, 43200>>

LastUpdates == {<<10, 43200>>, <<9, 43201>>, <<9, 43200>>, <<7, 43201>>,
                <<7, 43200>>, <<10, 43201>>}

NetFail == [net |-> "fail"]

\* A 32-character prefix (timestamp and severity) that ends in c.
Prefix(c) == [i \in 1..(PrefixLen - 1) |-> IF i % 5 = 0 THEN "|" ELSE "0"] \o <<c>>

SomeServices ==
    <<[type |-> "3", name |-> "nginx", monitor |-> "1", status |-> "512"],
      [type |-> "3", name |-> "sshd", monitor |-> "1", status |-> "0"],
      [type |-> "3", name |-> "cron", monitor |-> "0", status |-> "512"],
      [type |-> "5", name |-> "host", monitor |-> "1", status |-> "1"]>>

SomeChecks ==
    <<[name |-> "backup", status |-> "down"], [name |-> "ping", status |-> "up"]>>

SomeDevices ==
    <<[idx |-> <<"2">>, LastUpdate |-> <<7, 43200>>, BatteryLevel |-> 10,
       PlanID |-> "0"],
      [idx |-> <<"1", "0">>, LastUpdate |-> <<10, 43200>>, BatteryLevel |-> 255,
       PlanID |-> "0"]>>

SomeLogItems ==
    <<[level |-> 4, message |-> Prefix("0") \o <<"a", "b">>],
      [level |-> 4, message |-> Prefix("1") \o <<"a", "b">>]>>

SomeZwayDevices ==
    <<[nodeId |-> 1, technology |-> "Z-Wave", deviceType |-> "switchBinary",
       locationName |-> "Hall",
       metrics |-> [isFailed |-> TRUE, title |-> "Sensor"]],
      [nodeId |-> 2, technology |-> "WiFi", deviceType |-> "camera",
       metrics |-> [isFailed |-> TRUE, title |-> "Cam"]],
      [nodeId |-> 3, technology |-> "Z-Wave", deviceType |-> "battery",
       locationName |-> "Hall",
       metrics |-> [isFailed |-> FALSE, title |-> "Sensor battery", level |-> 5]]>>

GoodBody ==
    [monit    |-> [kind |-> "xml", services |-> SomeServices],
     health   |-> [kind |-> "json", value |-> [checks |-> SomeChecks]],
     domoticz |-> [kind |-> "json",
                   value |-> [status |-> "OK", result |-> SomeDevices]],
     log      |-> [kind |-> "json",
                   value |-> [status |-> "OK", result |-> SomeLogItems]],
     zway     |-> [kind |-> "json",
                   value |-> [code |-> 200,
                              data |-> [devices |-> SomeZwayDevices]]]]

\* A body that is neither JSON nor XML.
Garbage == [kind |-> "malformed"]

\* A body that parses and lacks what the code reads from it; for the XML of
\* monit, a body that does not parse.
BadBody ==
    [monit    |-> Garbage,
     health   |-> [kind |-> "json", value |-> [error |-> "bad key"]],
     domoticz |-> [kind |-> "json", value |-> [status |-> "ERR"]],
     log      |-> [kind |-> "json", value |-> [status |-> "OK"]],
     zway     |-> [kind |-> "json", value |-> [code |-> 401]]]

GoodResponses ==
    [s \in Sources |-> [net |-> "ok", status |-> 200, body |-> GoodBody[s]]]

ResponsesOf(s) ==
    {NetFail} \cup {[net |-> "ok", status |-> st, body |-> b] :
                        st \in {200, 500},
                        b \in {GoodBody[s], BadBody[s], Garbage}}

DefaultConfig ==
    [TIMEOUT_PERIOD |-> 3, LOW_BATTERY_LEVEL |-> 20,
     LOG_MESSAGES_IGNORED |-> <<>>, SEND_MAIL |-> TRUE]

NoTimeouts == [i \in {} |-> 0]

\* The state when line 174 is reached: nothing fetched, nothing computed,
\* rendered.html not written by this run.
Start ==
    /\ pc = "monit"
    /\ failedAt = "none"
    /\ fetched = {}
    /\ monit_services = None
    /\ health_checks = None
    /\ domoticz_devices = None
    /\ devices_inactive = None
    /\ devices_low_battery = None
    /\ devices_no_roomplan = None
    /\ log_errors = None
    /\ zway_devices = None
    /\ zway_devices_failed = None
    /\ zway_devices_low_battery = None
    /\ context = None
    /\ report = None
    /\ file = None
    /\ mail = "none"

\* Runs that differ in what the five sources answer and in SEND_MAIL.
Init ==
    /\ Start
    /\ config \in {[DefaultConfig EXCEPT !.SEND_MAIL = b] : b \in BOOLEAN}
    /\ domoticz_devices_ignored = {}
    /\ domoticz_devices_timeout_period = NoTimeouts
    /\ domoticz_devices_low_battery = {<<"2">>}
    /\ now = NowStamp
    /\ responses \in [monit : ResponsesOf("monit"), health : ResponsesOf("health"),
                      domoticz : ResponsesOf("domoticz"), log : ResponsesOf("log"),
                      zway : ResponsesOf("zway")]

Spec == Init /\ [][Next]_vars

\* Runs that differ in the devices of the automation controller and in the
\* inactivity rules.
InactiveDevices ==
    {[idx |-> i, LastUpdate |-> u, BatteryLevel |-> 255, PlanID |-> "1"] :
        i \in Idx, u \in LastUpdates}

InitInactive ==
    /\ Start
    /\ config \in {[DefaultConfig EXCEPT !.TIMEOUT_PERIOD = t] : t \in {1, 3}}
    /\ domoticz_devices_ignored \in {{}, {<<"1">>}, {<<"1", "0">>}}
    /\ domoticz_devices_timeout_period \in
          {NoTimeouts, (<<"1">> :> 3), (<<"2">> :> 0) @@ (<<"1", "0">> :> 1)}
    /\ domoticz_devices_low_battery = {}
    /\ now = NowStamp
    /\ \E devices \in SeqsUpTo(InactiveDevices, MaxDevices) :
          /\ DistinctIdx(devices)
          /\ responses = [GoodResponses EXCEPT
                            !["domoticz"].body.value.result = devices]

SpecInactive == InitInactive /\ [][Next]_vars

\* Runs that differ in the battery levels and in the low-battery rules.
BatteryDevices ==
    {[idx |-> i, LastUpdate |-> NowStamp, BatteryLevel |-> b, PlanID |-> "1"] :
        i \in Idx, b \in {0, 19, 20}}
    \cup {[idx |-> i, LastUpdate |-> NowStamp, PlanID |-> "1"] : i \in Idx}

InitLowBattery ==
    /\ Start
    /\ config \in {[DefaultConfig EXCEPT !.LOW_BATTERY_LEVEL = t] : t \in {0, 20}}
    /\ domoticz_devices_ignored = {}
    /\ domoticz_devices_timeout_period = NoTimeouts
    /\ domoticz_devices_low_battery \in SUBSET Idx
    /\ now = NowStamp
    /\ \E devices \in SeqsUpTo(BatteryDevices, MaxDevices) :
          /\ DistinctIdx(devices)
          /\ responses = [GoodResponses EXCEPT
                            !["domoticz"].body.value.result = devices]

SpecLowBattery == InitLowBattery /\ [][Next]_vars

\* Runs that differ in the room plans of the devices and in the two device
\* sets of the configuration.
RoomplanDevices ==
    {[idx |-> i, LastUpdate |-> NowStamp, BatteryLevel |-> 255, PlanID |-> p] :
        i \in Idx, p \in {"0", "1"}}

InitRoomplan ==
    /\ Start
    /\ config = DefaultConfig
    /\ domoticz_devices_ignored \in {{}, {<<"1">>, <<"1", "0">>}}
    /\ domoticz_devices_timeout_period = NoTimeouts
    /\ domoticz_devices_low_battery \in {{}, {<<"2">>, <<"1", "0">>}}
    /\ now = NowStamp
    /\ \E devices \in SeqsUpTo(RoomplanDevices, MaxDevices) :
          /\ DistinctIdx(devices)
          /\ responses = [GoodResponses EXCEPT
                            !["domoticz"].body.value.result = devices]

SpecRoomplan == InitRoomplan /\ [][Next]_vars

\* Runs that differ in the log entries and in the ignored patterns.
LogMessages ==
    {Prefix(c) \o k : c \in {"0", "1"}, k \in {<<"a", "b">>, <<"b", "c">>, <<"c">>}}
    \cup {<<"a", "b">>}

IgnoredPatternLists ==
    {<<>>, << <<"b">> >>, << <<".", "c">> >>, << <<"a", "b">>, <<"c">> >>,
     << <<>> >>}

InitLog ==
    /\ Start
    /\ config \in {[DefaultConfig EXCEPT !.LOG_MESSAGES_IGNORED = l] :
                      l \in IgnoredPatternLists}
    /\ domoticz_devices_ignored = {}
    /\ domoticz_devices_timeout_period = NoTimeouts
    /\ domoticz_devices_low_battery = {}
    /\ now = NowStamp
    /\ \E messages \in SeqsUpTo(LogMessages, MaxLogItems) :
          responses = [GoodResponses EXCEPT
                          !["log"].body.value.result =
                              [i \in 1..Len(messages) |->
                                  [level |-> 4, message |-> messages[i]]]]

SpecLog == InitLog /\ [][Next]_vars

\* Runs that differ in the devices of the gateway.
ZwayDevices ==
    {[nodeId |-> n, technology |-> t, deviceType |-> "switchBinary",
      locationName |-> "Hall", metrics |-> [isFailed |-> f, title |-> "Sensor"]] :
        n \in {1, 2, 3}, t \in {"Z-Wave", "WiFi"}, f \in BOOLEAN}

InitZway ==
    /\ Start
    /\ config = DefaultConfig
    /\ domoticz_devices_ignored = {}
    /\ domoticz_devices_timeout_period = NoTimeouts
    /\ domoticz_devices_low_battery = {}
    /\ now = NowStamp
    /\ \E devices \in SeqsUpTo(ZwayDevices, MaxZwayDevices) :
          /\ DistinctNodeId(devices)
          /\ responses = [GoodResponses EXCEPT
                            !["zway"].body.value.data.devices = devices]

SpecZway == InitZway /\ [][Next]_vars

-----------------------------------------------------------------------------
(* Vocabulary of the properties.                                           *)

Statements ==
    <<"monit", "health", "domoticz", "inactive", "low_battery", "no_roomplan",
      "log", "zway", "zway_failed", "zway_low_battery", "context", "render",
      "write", "mail", "done">>

Pos(p) == CHOOSE i \in 1..Len(Statements) : Statements[i] = p

\* The statement named has completed in this run.
Past(p) == Pos(IF pc = "failed" THEN failedAt ELSE pc) > Pos(p)

Range(s) == {s[i] : i \in 1..Len(s)}

\* out holds the elements of in that satisfy P, once each, in the order of in.
IsFilterOf(out, in, P(_)) ==
    LET keep == {i \in 1..Len(in) : P(in[i])}
    IN  /\ Len(out) = Cardinality(keep)
        /\ \A k \in 1..Len(out) :
              \E i \in keep : /\ Cardinality({j \in keep : j <= i}) = k
                              /\ out[k] = in[i]

RawDevices == responses["domoticz"].body.value.result

-----------------------------------------------------------------------------
(* C1.                                                                     *)

\* The whole days in an elapsed time of el seconds: the n with
\* n days <= el < n + 1 days.
FloorDays(el) ==
    CHOOSE n \in -400..400 : n * 86400 <= el /\ el < (n + 1) * 86400

ElapsedSeconds(d) ==
    (now[1] - d.LastUpdate[1]) * 86400 + (now[2] - d.LastUpdate[2])

EffectiveTimeout(idx) ==
    IF \E i \in DOMAIN domoticz_devices_timeout_period : i = idx
    THEN domoticz_devices_timeout_period[idx]
    ELSE config.TIMEOUT_PERIOD

\* C1: once get_devices_inactive has returned, a device of the fetched list
\* is in its result if and only if its idx is not ignored and the whole days
\* since its LastUpdate are at least its effective timeout (the override of
\* the device when there is one, the default otherwise); an ignored device is
\* never in the result.
C1_InactiveIff ==
    Past("inactive") =>
        /\ \A d \in Range(domoticz_devices) :
              d \in Range(devices_inactive) <=>
                  /\ d.idx \notin domoticz_devices_ignored
                  /\ FloorDays(ElapsedSeconds(d)) >= EffectiveTimeout(d.idx)
        /\ Range(devices_inactive) \subseteq Range(domoticz_devices)
        /\ \A d \in Range(devices_inactive) :
              d.idx \notin domoticz_devices_ignored

\* An ignored device three days stale is left out, while a device whose
\* override it reaches exactly is returned.
C1_Witness ==
    /\ Past("inactive")
    /\ \E d \in Range(domoticz_devices) :
          /\ d.idx \in domoticz_devices_ignored
          /\ FloorDays(ElapsedSeconds(d)) = 3
          /\ d \notin Range(devices_inactive)
    /\ \E d \in Range(devices_inactive) :
          /\ d.idx \in DOMAIN domoticz_devices_timeout_period
          /\ FloorDays(ElapsedSeconds(d)) = domoticz_devices_timeout_period[d.idx]
          /\ FloorDays(ElapsedSeconds(d)) < config.TIMEOUT_PERIOD

-----------------------------------------------------------------------------
(* C2.                                                                     *)

HasBatteryLevel(d) == "BatteryLevel" \in DOMAIN d

IsLowBattery(d) ==
    /\ d.idx \in domoticz_devices_low_battery
    /\ HasBatteryLevel(d)
    /\ d.BatteryLevel < config.LOW_BATTERY_LEVEL

\* Every device of the opt-in set reports a battery level.
OptInLevelsPresent ==
    \A d \in Range(RawDevices) :
        d.idx \in domoticz_devices_low_battery => HasBatteryLevel(d)

\* C2: get_devices_low_battery returns for every fetched device list, and its
\* result holds, in the order of the list, exactly the devices whose idx is
\* in the opt-in set and whose BatteryLevel is below the threshold; a device
\* outside the opt-in set is never in the result, whatever its level.
C2_LowBatteryFilter ==
    /\ ~(pc = "failed" /\ failedAt = "low_battery")
    /\ Past("low_battery") =>
          /\ IsFilterOf(devices_low_battery, domoticz_devices, IsLowBattery)
          /\ \A d \in Range(devices_low_battery) :
                d.idx \in domoticz_devices_low_battery

\* What holds of get_devices_low_battery: C2 on the device lists whose opt-in
\* devices all report a battery level.  On the others the call raises (C8).
LowBatteryFilterWhenLevelsPresent ==
    /\ OptInLevelsPresent => ~(pc = "failed" /\ failedAt = "low_battery")
    /\ ~OptInLevelsPresent => ~Past("low_battery")
    /\ Past("low_battery") =>
          /\ IsFilterOf(devices_low_battery, domoticz_devices, IsLowBattery)
          /\ \A d \in Range(devices_low_battery) :
                d.idx \in domoticz_devices_low_battery

-----------------------------------------------------------------------------
(* C8.                                                                     *)

Normalizers ==
    {"inactive", "low_battery", "no_roomplan", "zway_failed", "zway_low_battery"}

\* C8: no normalizer raises: a run never ends in get_devices_inactive,
\* get_devices_low_battery, get_devices_no_roomplan, get_zway_devices_failed
\* or get_zway_devices_low_battery, nor in the log aggregation once the log
\* has been fetched.
C8_NormalizersNeverRaise ==
    pc = "failed" =>
        /\ failedAt \notin Normalizers
        /\ failedAt = "log" => \/ responses["log"].net # "ok"
                               \/ responses["log"].body.kind # "json"

-----------------------------------------------------------------------------
(* C10.                                                                    *)

\* s comes before t in the order of strings: at the first place where they
\* differ s has the lesser character, or s is a proper prefix of t.
LexBefore(s, t) ==
    \E k \in 0..Len(s) :
        /\ k <= Len(t)
        /\ \A i \in 1..k : s[i] = t[i]
        /\ \/ (k = Len(s) /\ k < Len(t))
           \/ (k < Len(s) /\ k < Len(t) /\ CharCode[s[k + 1]] < CharCode[t[k + 1]])

\* C10: the devices_no_roomplan list of the report holds exactly the fetched
\* devices whose PlanID is "0", each once, in ascending order of idx compared
\* as a string; the ignored set and the low-battery opt-in set play no part.
C10_NoRoomplanSorted ==
    Past("context") =>
        LET L == context.devices_no_roomplan
        IN  /\ Range(L) = {d \in Range(RawDevices) : d.PlanID = "0"}
            /\ Len(L) = Cardinality(Range(L))
            /\ \A i, j \in 1..Len(L) : i < j => LexBefore(L[i].idx, L[j].idx)

\* "10" is listed before "2", both are ignored for inactivity or opted in for
\* the battery check, and the fetched list had them the other way round.
C10_Witness ==
    /\ Past("context")
    /\ Len(context.devices_no_roomplan) = 2
    /\ context.devices_no_roomplan[1].idx = <<"1", "0">>
    /\ context.devices_no_roomplan[2].idx = <<"2">>
    /\ RawDevices[1].idx = <<"2">>
    /\ <<"1", "0">> \in domoticz_devices_ignored
    /\ <<"2">> \in domoticz_devices_low_battery

-----------------------------------------------------------------------------
(* C3.                                                                     *)

LogItems == responses["log"].body.value.result

\* The message with its first 32 characters dropped.
KeyOf(message) ==
    [i \in 1..(IF Len(message) > 32 THEN Len(message) - 32 ELSE 0) |->
        message[i + 32]]

\* The pattern matches some stretch of the key.
MatchesSomewhere(pattern, key) ==
    \E a \in 0..Len(key) :
        /\ a + Len(pattern) <= Len(key)
        /\ \A j \in 1..Len(pattern) : pattern[j] \in {".", key[a + j]}

Suppressed(key) ==
    \E p \in Range(config.LOG_MESSAGES_IGNORED) : MatchesSomewhere(p, key)

Occurrences(items, key) ==
    Cardinality({i \in 1..Len(items) : KeyOf(items[i].message) = key})

Reorderings(items) ==
    {[i \in 1..Len(items) |-> items[f[i]]] : f \in Permutations(1..Len(items))}

\* C3: the log_errors list of the report holds exactly one entry
\* {text, count} for each distinct key that no ignored pattern matches by
\* search, with the number of fetched entries of that key as its count; a key
\* is left out if and only if some ignored pattern matches it; the entries
\* are in descending order of count; and the aggregation of every reordering
\* of the fetched entries yields the same set of entries.
C3_LogErrors ==
    Past("context") =>
        LET L == context.log_errors
            keys == {KeyOf(LogItems[i].message) : i \in 1..Len(LogItems)}
        IN  /\ Range(L) = {[text |-> k, count |-> Occurrences(LogItems, k)] :
                              k \in {x \in keys : ~Suppressed(x)}}
            /\ \A i, j \in 1..Len(L) : i # j => L[i].text # L[j].text
            /\ \A k \in keys :
                  (\A i \in 1..Len(L) : L[i].text # k) <=> Suppressed(k)
            /\ \A i, j \in 1..Len(L) : i < j => L[i].count >= L[j].count
            /\ \A r \in Reorderings(LogItems) :
                  Range(count_log_errors(r, config.LOG_MESSAGES_IGNORED, <<>>))
                      = Range(L)

\* Two entries of one key with different prefixes make one entry of count 2,
\* while the key "ab", which the pattern "b" matches after its start, is
\* left out.
C3_Witness ==
    /\ Past("context")
    /\ config.LOG_MESSAGES_IGNORED = << <<"b">> >>
    /\ context.log_errors = <<[text |-> <<"c">>, count |-> 2]>>
    /\ Len(LogItems) = 3
    /\ LogItems[1].message # LogItems[2].message
    /\ KeyOf(LogItems[3].message) = <<"a", "b">>

-----------------------------------------------------------------------------
(* C4.                                                                     *)

\* The key that the code reads at the top of the JSON payload of a source.
TopLevelKey ==
    [health |-> "checks", domoticz |-> "result", zway |-> "data"]

\* The fetch of the source succeeds: the request is answered and the payload
\* has the expected shape (for monit, an XML document; for the log, JSON).
FetchSucceeds(s) ==
    /\ responses[s].net = "ok"
    /\ IF s = "monit" THEN responses[s].body.kind = "xml"
       ELSE /\ responses[s].body.kind = "json"
            /\ s \in DOMAIN TopLevelKey =>
                  TopLevelKey[s] \in DOMAIN responses[s].body.value

-----------------------------------------------------------------------------
(* C5.                                                                     *)

NonOkStatus(s) ==
    responses[s].net = "ok" /\ responses[s].status \notin 200..299

\* C5: a run in which some source answers with a non-2xx status writes no
\* report file and sends no mail, whatever the body of that response.
C5_NonOkStatusAborts ==
    (\E s \in Sources \ {"log"} : NonOkStatus(s)) =>
        (file = None /\ mail = "none")

-----------------------------------------------------------------------------
(* C6.                                                                     *)

LogDegraded ==
    /\ responses["log"].net = "ok"
    /\ responses["log"].body.kind = "json"
    /\ "result" \notin DOMAIN responses["log"].body.value

\* C6: when the log payload has no 'result' key, get_log_errors returns the
\* empty list and the run does not end there; the report that is written has
\* an empty log_errors list and its other lists are the ones the normalizers
\* compute from the other sources.
C6_LogDegradation ==
    LogDegraded =>
        /\ ~(pc = "failed" /\ failedAt = "log")
        /\ Past("log") => log_errors = <<>>
        /\ Past("write") =>
              /\ file.html.log_errors = <<>>
              /\ file.html.monit_services
                    = get_monit_services(responses["monit"]).value
              /\ file.html.health_checks
                    = get_health_checks(responses["health"]).value
              /\ Range(file.html.devices_inactive)
                    = {d \in Range(RawDevices) : is_inactive(d)}
              /\ IsFilterOf(file.html.devices_low_battery, RawDevices,
                            LAMBDA d : low_battery_step(d) = "append")
              /\ Range(file.html.devices_no_roomplan)
                    = {d \in Range(RawDevices) : d.PlanID = "0"}
              /\ file.html.zway_devices_failed
                    = get_zway_devices_failed(
                          get_zway_devices(responses["zway"]).value).value
              /\ file.html.zway_devices_low_battery
                    = get_zway_devices_low_battery(
                          get_zway_devices(responses["zway"]).value).value

\* A run with a log payload without 'result' ends normally, its report
\* written with an inactive device and a failed service in it.
C6_Witness ==
    /\ LogDegraded
    /\ pc = "done"
    /\ file # None
    /\ file.html.log_errors = <<>>
    /\ file.html.devices_inactive # <<>>
    /\ file.html.monit_services # <<>>

-----------------------------------------------------------------------------
(* C9.                                                                     *)

\* C9: the mail step starts only with the report written to rendered.html; a
\* mail is attempted only when SEND_MAIL is enabled; and a run that ends in
\* the mail step ends as failed with rendered.html holding the report.
C9_FileBeforeMail ==
    /\ pc = "mail" => (file # None /\ file = report)
    /\ mail # "none" => (config.SEND_MAIL /\ file # None /\ file = report)
    /\ failedAt = "mail" => (pc = "failed" /\ mail = "failed" /\ file = report)
    /\ pc = "done" => (file # None /\ (mail = "sent" <=> config.SEND_MAIL))

\* The mail step failed and the report is in the file.
C9_Witness ==
    /\ pc = "failed"
    /\ failedAt = "mail"
    /\ file # None
    /\ file = render(context)

-----------------------------------------------------------------------------
(* C7.                                                                     *)

RawZwayDevices == responses["zway"].body.value.data.devices

IsFailedZwave(d) == d.technology = "Z-Wave" /\ d.metrics.isFailed = TRUE

Reshaped(d) ==
    [id |-> d.nodeId, name |-> d.metrics.title, location |-> d.locationName]

\* C7 as stated: the zway_devices_failed list of the report holds, in input
\* order, one entry {id, name, location} for each failed Z-Wave device.
C7_ReshapedEntries ==
    Past("context") =>
        LET kept == SelectSeq(RawZwayDevices, IsFailedZwave)
        IN  context.zway_devices_failed
                = [i \in 1..Len(kept) |-> Reshaped(kept[i])]

\* C7, amended: the zway_devices_failed list of the report holds, in input
\* order, exactly one entry for each device of the gateway whose technology
\* is "Z-Wave" and whose metrics.isFailed is true, each entry being the
\* device record as the gateway sent it; a device of another technology is
\* never in the list.
C7_FailedZwaveDevices ==
    Past("context") =>
        /\ IsFilterOf(context.zway_devices_failed, RawZwayDevices, IsFailedZwave)
        /\ \A d \in Range(context.zway_devices_failed) :
              d.technology = "Z-Wave"

\* A failed WiFi device is left out and a failed Z-Wave device is listed as
\* the gateway sent it.
C7_Witness ==
    /\ Past("context")
    /\ \E d \in Range(RawZwayDevices) :
          d.technology = "WiFi" /\ d.metrics.isFailed
    /\ Len(context.zway_devices_failed) = 1
    /\ context.zway_devices_failed[1] \in Range(RawZwayDevices)
    /\ DOMAIN context.zway_devices_failed[1]
          = {"nodeId", "technology", "deviceType", "locationName", "metrics"}

====
